---- MODULE Spec2Model ----
(***************************************************************************)
(* FloraGuard (PlantCare AI): the local-first persistence and scheduling   *)
(* layer of src/App.tsx and the views that call into it.                   *)
(*                                                                         *)
(* The App component keeps the history ledger, the reminder registry and   *)
(* the user in React state and writes every change through to             *)
(* localStorage.  An effect keyed on the reminder list runs checkReminders *)
(* once immediately and then on a one-minute interval.  Event handlers run *)
(* to completion, and React re-renders and re-runs the effects before the  *)
(* next event, so one action below is one handler together with the       *)
(* effect run it triggers.  The continuation of an awaited request runs    *)
(* later, in the closure of the render that started it.                    *)
(*                                                                         *)
(* Spec is the whole application.  The registry with its scheduler and the *)
(* ledger share no code but Mount, Reload and the view switch, so they are *)
(* checked apart, as SpecScheduler and SpecLedger; SpecStore runs both     *)
(* together over a smaller set of inputs.  SpecRegistry is the registry    *)
(* with the month view of the reminders page and no scheduler, and         *)
(* SpecTranslate is the chat of the home and garden-care views with the    *)
(* translation requests of their messages.  SpecRollover starts the        *)
(* scheduler on markers left by earlier days, SpecDispatch lets the        *)
(* construction of a notification fail, SpecBackToBack issues two registry *)
(* calls from one render, and SpecAccount is sign-in and sign-out beside   *)
(* the registry and the ledger.                                            *)
(***************************************************************************)
EXTENDS Integers, Sequences, FiniteSets, TLC

\* ------------------------------------------------------------------ bounds
MaxIds == 2          \* reminders ever created (crypto.randomUUID calls)
MaxItems == 3        \* history items ever created
MaxInflight == 2     \* awaited AI requests outstanding at once
MaxInstant == 2      \* last instant of the modelled clock
SlotsPerDay == 2     \* instants per calendar day of the modelled clock
DaysPerMonth == 1    \* days per month of the modelled calendar
MonthsPerYear == 2   \* months per year of the modelled calendar
MaxDate == 5         \* last instant the calendar of the reminders view offers
MaxMsgs == 3         \* chat messages created between two page loads
MaxTranslating == 2  \* translation requests outstanding at once

Ids == 1..MaxIds
Instants == 0..MaxInstant
Dates == 0..MaxDate
Titles == {"Fertilize Tomatoes", "Water Basil"}
NoMarker == -1       \* localStorage.getItem returned null

\* ------------------------------------------------------------- data shapes
Undef == "undefined"

AppView == {"home", "history", "account", "garden-care", "soil-analyzer",
            "seed-detector", "reminders"}

HistoryItemType == {"analysis", "guide", "soil-analysis", "seed-analysis"}

ReminderFields == <<"id", "title", "type", "plantName", "date", "completed">>

HistoryItemFields == <<"id", "type", "guideContent", "soilData", "seedData">>

UserFields == <<"name", "isLoggedIn">>

loggedOutUser == [name |-> "", isLoggedIn |-> FALSE]

mockUser == [name |-> "Agro Enthusiast", isLoggedIn |-> TRUE]

\* The translations a message can hold.
Lang == {"hi", "ml"}

\* translatingIndex === null (array indices are counted from 1 here)
NoIndex == 0

\* A chat message without translations.  mid tells messages apart (0: the
\* greeting of the garden view); analysis: the message carries a diagnosis.
Message(mid, role, analysis) ==
    [mid |-> mid, role |-> role, analysis |-> analysis, hi |-> Undef, ml |-> Undef]

greeting == Message(0, "model", FALSE)

\* new Date(x).toDateString(): the local calendar day of an instant
toDateString(instant) == instant \div SlotsPerDay

Days == {toDateString(t) : t \in Instants}

\* new Date(x).getMonth() and getFullYear()
getMonth(instant) == (toDateString(instant) \div DaysPerMonth) % MonthsPerYear

getFullYear(instant) == toDateString(instant) \div (DaysPerMonth * MonthsPerYear)

\* ------------------------------------------------- JSON.stringify / parse
\* The fields declared optional (key?: type), the ones that can be undefined.
OptionalFields == {"guideContent", "soilData", "seedData", "plantName"}

\* The text of an object is the sequence of its key/value pairs in key
\* order; a key whose value is undefined is left out.
RECURSIVE StringifyFrom(_, _, _)
StringifyFrom(obj, fields, i) ==
    IF i > Len(fields) THEN <<>>
    ELSE IF fields[i] \in OptionalFields /\ obj[fields[i]] = Undef
         THEN StringifyFrom(obj, fields, i + 1)
         ELSE <<<<fields[i], obj[fields[i]]>>>> \o StringifyFrom(obj, fields, i + 1)

StringifyObj(obj, fields) == StringifyFrom(obj, fields, 1)

\* Reading a key that the text does not hold gives undefined.
ParseObj(text, fields) ==
    [f \in {fields[i] : i \in 1..Len(fields)} |->
        IF \E i \in 1..Len(text) : text[i][1] = f
        THEN text[CHOOSE i \in 1..Len(text) : text[i][1] = f][2]
        ELSE Undef]

\* Variant of the serialization that loses the last record.
StringifySeq_DropLast(s, fields) ==
    [i \in 1..(Len(s) - 1) |-> StringifyObj(s[i], fields)]

StringifySeq(s, fields) == [i \in 1..Len(s) |-> StringifyObj(s[i], fields)]

ParseSeq(text, fields) == [i \in 1..Len(text) |-> ParseObj(text[i], fields)]

\* A localStorage slot: no entry, a text written by JSON.stringify, or a
\* string that JSON.parse rejects.
Absent == [kind |-> "absent", body |-> <<>>]

Garbage == [kind |-> "garbage", body |-> <<>>]

Text(body) == [kind |-> "text", body |-> body]

\* JSON.parse throws a SyntaxError on a string that is not JSON.
ParseThrows(slot) == slot.kind = "garbage"

\* -------------------------------------------------------------------- state
VARIABLES
    phase,        \* "init": constructed, effects not yet run; "running";
                  \* "crashed": an effect threw and React unmounted the tree
    view,         \* App.view
    history,      \* App.history
    reminders,    \* App.reminders
    user,         \* App.user
    isAnalyzing,  \* App.isAnalyzing (home image analysis outstanding)
    localBusy,    \* isChatLoading / isAnalyzing of the mounted view component
    store,        \* localStorage
    permission,   \* Notification.permission, "unsupported" when window has
                  \* no Notification
    now,          \* the clock
    inflight,     \* awaited AI requests with the closure that issued them
    nextId,       \* next reminder id
    nextItem,     \* next history item id
    dispatched,   \* log: number of new Notification(...) calls per id and day
    run,          \* log: the last checkReminders run
    appended,     \* log: items passed to saveToHistory since the last clear
    snap,         \* log: the collections in memory at a reload, until the
                  \* next start
    last,         \* log: the last operation and what it was applied to
    messages,     \* App.messages (the chat of the home view)
    chatMessages, \* chatMessages of the mounted GardenCare or SoilAnalyzer
    translatingIndex, \* translatingIndex of the mounted view component
    translating,  \* awaited translateText calls with the closure that issued
                  \* them
    nextMsg,      \* next message mid
    succeeded,    \* log: <<mid, lang>> of the translations that came back
    error,        \* error of the mounted SoilAnalyzer or SeedDetector is set
    timers,       \* the intervals registered with setInterval and not
                  \* cleared, each with the list its checkReminders iterates
    cleared       \* log: ids of the items Clear All removed

vars == <<phase, view, history, reminders, user, isAnalyzing, localBusy, store,
          permission, now, inflight, nextId, nextItem, dispatched, run,
          appended, snap, last, messages, chatMessages, translatingIndex,
          translating, nextMsg, succeeded, error, timers, cleared>>

chatVars == <<messages, chatMessages, translatingIndex, translating, nextMsg,
              succeeded, error>>

\* --------------------------------------------------------- checkReminders
\* The state machine of one reminder as the scheduler sees it.
IsDue(r, instant) == toDateString(r.date) = toDateString(instant) /\ ~r.completed

Pending(r, notified, instant) ==
    IsDue(r, instant) /\ notified[r.id] # toDateString(instant)

\* Variants of the loop body with one check or one write changed.
checkOne_NoSuppress(r, acc, perm, instant) ==
    LET todayStr == toDateString(instant) IN
    IF toDateString(r.date) = todayStr /\ ~r.completed /\ perm = "granted"
    THEN [acc EXCEPT !.trace = @ \o <<<<"dispatch", r.id>>, <<"mark", r.id>>>>,
                     !.notified[r.id] = todayStr]
    ELSE acc

checkOne_NoMark(r, acc, perm, instant) ==
    LET todayStr == toDateString(instant) IN
    IF toDateString(r.date) = todayStr /\ ~r.completed /\ perm = "granted"
       /\ acc.notified[r.id] # todayStr
    THEN [acc EXCEPT !.trace = @ \o <<<<"dispatch", r.id>>>>]
    ELSE acc

checkOne_MarkOutsideGrant(r, acc, perm, instant) ==
    LET todayStr == toDateString(instant) IN
    IF toDateString(r.date) = todayStr /\ ~r.completed /\ acc.notified[r.id] # todayStr
    THEN IF perm = "granted"
         THEN [acc EXCEPT !.trace = @ \o <<<<"dispatch", r.id>>, <<"mark", r.id>>>>,
                          !.notified[r.id] = todayStr]
         ELSE [acc EXCEPT !.trace = @ \o <<<<"mark", r.id>>>>,
                          !.notified[r.id] = todayStr]
    ELSE acc

checkOne_IgnoreCompleted(r, acc, perm, instant) ==
    LET todayStr == toDateString(instant) IN
    IF toDateString(r.date) = todayStr /\ perm = "granted"
       /\ acc.notified[r.id] # todayStr
    THEN [acc EXCEPT !.trace = @ \o <<<<"dispatch", r.id>>, <<"mark", r.id>>>>,
                     !.notified[r.id] = todayStr]
    ELSE acc

checkOne_AnyMarkerSuppresses(r, acc, perm, instant) ==
    LET todayStr == toDateString(instant) IN
    IF toDateString(r.date) = todayStr /\ ~r.completed /\ perm = "granted"
    THEN IF acc.notified[r.id] = NoMarker
         THEN [acc EXCEPT !.trace = @ \o <<<<"dispatch", r.id>>, <<"mark", r.id>>>>,
                          !.notified[r.id] = todayStr]
         ELSE [acc EXCEPT !.trace = @ \o <<<<"skip", r.id>>>>]
    ELSE acc

checkOne_IgnorePermission(r, acc, perm, instant) ==
    LET todayStr == toDateString(instant) IN
    IF toDateString(r.date) = todayStr /\ ~r.completed /\ acc.notified[r.id] # todayStr
    THEN [acc EXCEPT !.trace = @ \o <<<<"dispatch", r.id>>, <<"mark", r.id>>>>,
                     !.notified[r.id] = todayStr]
    ELSE acc

\* The body of reminders.forEach for one reminder; acc carries the markers,
\* the trace of calls made so far and whether an exception is propagating.
checkOne(r, acc, perm, instant) ==
    LET todayStr == toDateString(instant) IN
    IF toDateString(r.date) = todayStr /\ ~r.completed
    THEN IF perm = "unsupported"
         THEN [acc EXCEPT !.threw = TRUE]
         ELSE IF perm = "granted"
              THEN IF acc.notified[r.id] # todayStr
                   THEN [acc EXCEPT
                           !.trace = @ \o <<<<"dispatch", r.id>>, <<"mark", r.id>>>>,
                           !.notified[r.id] = todayStr]
                   ELSE [acc EXCEPT !.trace = @ \o <<<<"skip", r.id>>>>]
              ELSE acc
    ELSE acc

\* The body for a reminder whose new Notification(...) throws: the exception
\* leaves the callback before localStorage.setItem, and forEach with it.
checkOneMay(r, acc, perm, instant, failing) ==
    IF /\ r.id \in failing
       /\ toDateString(r.date) = toDateString(instant) /\ ~r.completed
       /\ perm = "granted"
       /\ acc.notified[r.id] # toDateString(instant)
    THEN [acc EXCEPT !.trace = @ \o <<<<"attempt", r.id>>>>, !.threw = TRUE]
    ELSE checkOne(r, acc, perm, instant)

RECURSIVE checkFrom(_, _, _, _, _, _)
checkFrom(rems, i, acc, perm, instant, failing) ==
    IF i > Len(rems) \/ acc.threw THEN acc
    ELSE checkFrom(rems, i + 1, checkOneMay(rems[i], acc, perm, instant, failing),
                   perm, instant, failing)

checkRemindersMay(rems, notified, perm, instant, failing) ==
    checkFrom(rems, 1, [notified |-> notified, trace |-> <<>>, threw |-> FALSE],
              perm, instant, failing)

\* A run in which every new Notification(...) returns.
checkReminders(rems, notified, perm, instant) ==
    checkRemindersMay(rems, notified, perm, instant, {})

\* Number of new Notification calls for id in a trace.
Calls(trace, id) == Cardinality({i \in 1..Len(trace) : trace[i] = <<"dispatch", id>>})

Logged(res, instant) ==
    [id \in Ids |-> [d \in Days |->
        IF d = toDateString(instant) THEN dispatched[id][d] + Calls(res.trace, id)
        ELSE dispatched[id][d]]]

\* Log entry of an operation applied to n: k counts the toggles of n in a
\* row, pre is the stored registry before the first of them, out is what a
\* read returned (for a tick, the markers it found).
Did(op, n) == [op |-> op, n |-> n, k |-> 0, pre |-> Absent, out |-> <<>>]

\* ------------------------------------------------------------ construction
InitialMemory ==
    /\ view = "home"
    /\ history = <<>>
    /\ reminders = <<>>
    /\ user = loggedOutUser
    /\ isAnalyzing = FALSE
    /\ localBusy = FALSE
    /\ messages = <<>>
    /\ chatMessages = <<>>
    /\ translatingIndex = NoIndex
    /\ error = FALSE

Init ==
    /\ phase = "init"
    /\ InitialMemory
    /\ store \in [history : {Absent, Garbage}, user : {Absent, Garbage},
                  reminders : {Absent, Garbage}, notified : {[id \in Ids |-> NoMarker]}]
    /\ permission \in {"default", "granted", "denied", "unsupported"}
    /\ now = 0
    /\ inflight = <<>>
    /\ nextId = 1
    /\ nextItem = 1
    /\ dispatched = [id \in Ids |-> [d \in Days |-> 0]]
    /\ run = [n |-> 0, trace |-> <<>>, threw |-> FALSE]
    /\ appended = <<>>
    /\ snap = [valid |-> FALSE, history |-> <<>>, reminders |-> <<>>]
    /\ last = Did("none", 0)
    /\ translating = <<>>
    /\ nextMsg = 1
    /\ succeeded = {}
    /\ timers = <<>>
    /\ cleared = {}

\* ------------------------------------------------- load / save of a slot
\* if (saved) setX(JSON.parse(saved)): an absent slot leaves the initial
\* empty state.
LoadSeq(slot, fields) ==
    IF slot.kind = "text" THEN ParseSeq(slot.body, fields) ELSE <<>>

LoadUser(slot) ==
    IF slot.kind = "text" THEN ParseObj(slot.body, UserFields) ELSE loggedOutUser

\* The reminder effect after a render with the list rems.  React first runs
\* the cleanup the previous run of the effect returned (clearInterval), then
\* the effect: setInterval registers checkReminders, which then runs once.
\* An exception leaving the effect unmounts the whole tree; the effect has
\* then returned no cleanup for the interval it registered.
EffectRun(rems, base) ==
    LET res == checkReminders(rems, base.notified, permission, now) IN
    /\ timers' = <<rems>>
    /\ store' = [base EXCEPT !.notified = res.notified]
    /\ dispatched' = Logged(res, now)
    /\ run' = [n |-> 1 - run.n, trace |-> res.trace, threw |-> res.threw]
    /\ phase' = IF res.threw THEN "crashed" ELSE "running"

\* -------------------------------------------------------- start and reload
NoSnapshot == [valid |-> FALSE, history |-> <<>>, reminders |-> <<>>]

\* Log of a start: 0 when no reload of a running page came before, 1 when
\* the collections loaded are the ones in memory at that reload, 2 when not.
Restored(hist, rems) ==
    IF ~snap.valid THEN 0
    ELSE IF hist = snap.history /\ rems = snap.reminders THEN 1 ELSE 2

Mount ==
    /\ phase = "init"
    /\ IF ParseThrows(store.history) \/ ParseThrows(store.user)
          \/ ParseThrows(store.reminders)
       THEN /\ phase' = "crashed"
            /\ last' = Did("mount", 0)
            /\ UNCHANGED <<history, user, reminders, store, dispatched, run,
                           timers>>
       ELSE /\ history' = LoadSeq(store.history, HistoryItemFields)
            /\ user' = LoadUser(store.user)
            /\ reminders' = LoadSeq(store.reminders, ReminderFields)
            /\ EffectRun(reminders', store)
            /\ last' = Did("mount", Restored(history', reminders'))
    /\ snap' = NoSnapshot
    /\ UNCHANGED <<view, isAnalyzing, localBusy, permission, now, inflight,
                   nextId, nextItem, appended, cleared>>
    /\ UNCHANGED chatVars

\* The page is reloaded: the JavaScript context and everything awaited in it
\* is gone, localStorage stays.
Reload ==
    /\ phase # "init"
    /\ phase' = "init"
    /\ view' = "home"
    /\ history' = <<>>
    /\ reminders' = <<>>
    /\ user' = loggedOutUser
    /\ isAnalyzing' = FALSE
    /\ localBusy' = FALSE
    /\ inflight' = <<>>
    /\ snap' = IF phase = "running"
               THEN [valid |-> TRUE, history |-> history, reminders |-> reminders]
               ELSE NoSnapshot
    /\ last' = Did("reload", 0)
    /\ messages' = <<>>
    /\ chatMessages' = <<>>
    /\ translatingIndex' = NoIndex
    /\ translating' = <<>>
    /\ nextMsg' = 1
    /\ succeeded' = {}
    /\ error' = FALSE
    /\ timers' = <<>>
    /\ UNCHANGED <<store, permission, now, nextId, nextItem, dispatched, run,
                   appended, cleared>>

\* The user answers the prompt of Notification.requestPermission().
PermissionDecision ==
    /\ phase # "init"
    /\ permission = "default"
    /\ permission' \in {"granted", "denied"}
    /\ last' = Did("permission", 0)
    /\ UNCHANGED <<phase, view, history, reminders, user, isAnalyzing, localBusy,
                   store, now, inflight, nextId, nextItem, dispatched, run,
                   appended, snap, timers, cleared>>
    /\ UNCHANGED chatVars

TimePasses ==
    /\ now < MaxInstant
    /\ now' = now + 1
    /\ last' = Did("time", 0)
    /\ UNCHANGED <<phase, view, history, reminders, user, isAnalyzing, localBusy,
                   store, permission, inflight, nextId, nextItem, dispatched,
                   run, appended, snap, timers, cleared>>
    /\ UNCHANGED chatVars

\* Variant of the timer callback that also drops the completed reminders
\* from the registry.
Tick_Prunes(failing) ==
    /\ phase # "init"
    /\ \E i \in 1..Len(timers) :
          LET res == checkRemindersMay(timers[i], store.notified, permission, now,
                                       failing)
              open == SelectSeq(reminders, LAMBDA r : ~r.completed) IN
          /\ reminders' = open
          /\ store' = [store EXCEPT
                          !.notified = res.notified,
                          !.reminders = Text(StringifySeq(open, ReminderFields))]
          /\ dispatched' = Logged(res, now)
          /\ run' = [n |-> 1 - run.n, trace |-> res.trace, threw |-> res.threw]
    /\ last' = [Did("tick", 0) EXCEPT !.out = [id \in Ids |-> store.notified[id]]]
    /\ UNCHANGED <<phase, view, history, user, isAnalyzing, localBusy,
                   permission, now, inflight, nextId, nextItem, appended, snap,
                   timers, cleared>>
    /\ UNCHANGED chatVars

\* A registered interval fires: its checkReminders runs over the list of the
\* render that registered it, with new Notification throwing for the
\* reminders in failing.  An exception in the callback is reported and the
\* page goes on.
Tick(failing) ==
    /\ phase # "init"
    /\ \E i \in 1..Len(timers) :
          LET res == checkRemindersMay(timers[i], store.notified, permission, now,
                                       failing) IN
          /\ store' = [store EXCEPT !.notified = res.notified]
          /\ dispatched' = Logged(res, now)
          /\ run' = [n |-> 1 - run.n, trace |-> res.trace, threw |-> res.threw]
    /\ last' = [Did("tick", 0) EXCEPT !.out = [id \in Ids |-> store.notified[id]]]
    /\ UNCHANGED <<phase, view, history, reminders, user, isAnalyzing, localBusy,
                   permission, now, inflight, nextId, nextItem, appended, snap,
                   timers, cleared>>
    /\ UNCHANGED chatVars

\* ------------------------------------------------------ reminder registry
saveReminders(updated) ==
    /\ reminders' = updated
    /\ EffectRun(updated,
                 [store EXCEPT !.reminders = Text(StringifySeq(updated, ReminderFields))])

\* The type and the plant name entered in the form with each title.
TypeOf(title) == IF title = "Water Basil" THEN "watering" ELSE "fertilizer"

PlantOf(title) == IF title = "Water Basil" THEN "Basil" ELSE ""

\* handleAddSubmit: the reminder built from the form and the selected date.
NewReminder(id, title, date) ==
    [id |-> id, title |-> title, type |-> TypeOf(title),
     plantName |-> PlantOf(title), date |-> date, completed |-> FALSE]

\* Variant of the insertion that keeps the list in date order.
Added_ByDate(rems, reminder) ==
    SelectSeq(rems, LAMBDA r : r.date <= reminder.date) \o <<reminder>>
       \o SelectSeq(rems, LAMBDA r : r.date > reminder.date)

\* [...reminders, reminder]
Added(rems, reminder) == rems \o <<reminder>>

handleAddReminder(title, date) ==
    /\ phase = "running"
    /\ view = "reminders"
    /\ nextId <= MaxIds
    /\ saveReminders(Added(reminders, NewReminder(nextId, title, date)))
    /\ nextId' = nextId + 1
    /\ last' = Did("add", nextId)
    /\ UNCHANGED <<view, history, user, isAnalyzing, localBusy, permission, now,
                   inflight, nextItem, appended, snap>>
    /\ UNCHANGED cleared
    /\ UNCHANGED chatVars

\* Variant of the toggle that marks the reminder completed.
Toggled_MarksCompleted(rems, id) ==
    [i \in 1..Len(rems) |->
        IF rems[i].id = id THEN [rems[i] EXCEPT !.completed = TRUE] ELSE rems[i]]

\* reminders.map(r => r.id === id ? { ...r, completed: !r.completed } : r)
Toggled(rems, id) ==
    [i \in 1..Len(rems) |->
        IF rems[i].id = id THEN [rems[i] EXCEPT !.completed = ~@] ELSE rems[i]]

handleToggleReminder(id) ==
    /\ phase = "running"
    /\ view = "reminders"
    /\ saveReminders(Toggled(reminders, id))
    /\ last' = IF last.op = "toggle" /\ last.n = id /\ last.k = 1
               THEN [Did("toggle", id) EXCEPT !.k = 2, !.pre = last.pre]
               ELSE [Did("toggle", id) EXCEPT !.k = 1, !.pre = store.reminders]
    /\ UNCHANGED <<view, history, user, isAnalyzing, localBusy, permission, now,
                   inflight, nextId, nextItem, appended, snap>>
    /\ UNCHANGED cleared
    /\ UNCHANGED chatVars

\* Variant of the removal that also drops what follows the match.
Removed_Truncates(rems, id) ==
    IF \E i \in 1..Len(rems) : rems[i].id = id
    THEN SubSeq(rems, 1, (CHOOSE i \in 1..Len(rems) : rems[i].id = id) - 1)
    ELSE rems

\* reminders.filter(r => r.id !== id)
Removed(rems, id) == SelectSeq(rems, LAMBDA r : r.id # id)

handleDeleteReminder(id) ==
    /\ phase = "running"
    /\ view = "reminders"
    /\ saveReminders(Removed(reminders, id))
    /\ last' = Did("delete", id)
    /\ UNCHANGED <<view, history, user, isAnalyzing, localBusy, permission, now,
                   inflight, nextId, nextItem, appended, snap>>
    /\ UNCHANGED cleared
    /\ UNCHANGED chatVars

\* A call of one of the three props the reminders view is given.
Mutations ==
    [op : {"add", "toggle", "delete"}, id : Ids, title : Titles, date : Dates]

\* What the call passes to saveReminders when the list of its render is rems.
Applied(rems, m) ==
    CASE m.op = "add" -> Added(rems, NewReminder(m.id, m.title, m.date))
      [] m.op = "toggle" -> Toggled(rems, m.id)
      [] m.op = "delete" -> Removed(rems, m.id)

Adds(m) == IF m.op = "add" THEN 1 ELSE 0

\* Two of the props are called in one event, before React renders again:
\* both handlers are the ones of the current render and read its reminders.
\* The second setReminders and the second setItem are the ones that stay.
BackToBack(first, second) ==
    /\ phase = "running"
    /\ view = "reminders"
    /\ first.op = "add" => first.id = nextId
    /\ second.op = "add" => second.id = nextId + Adds(first)
    /\ nextId + Adds(first) + Adds(second) - 1 <= MaxIds
    /\ saveReminders(Applied(reminders, second))
    /\ nextId' = nextId + Adds(first) + Adds(second)
    /\ last' = [Did("pair", 0) EXCEPT !.out = <<first, second>>]
    /\ UNCHANGED <<view, history, user, isAnalyzing, localBusy, permission, now,
                   inflight, nextItem, appended, snap>>
    /\ UNCHANGED cleared
    /\ UNCHANGED chatVars

\* Array.prototype.sort with (a, b) => getTime(a.date) - getTime(b.date):
\* stable, so reminders of one instant keep their order.
RECURSIVE SortByDate(_)
SortByDate(s) ==
    IF s = <<>> THEN <<>>
    ELSE LET rest == SortByDate(SubSeq(s, 1, Len(s) - 1))
             x == s[Len(s)] IN
         SelectSeq(rest, LAMBDA r : r.date <= x.date) \o <<x>>
            \o SelectSeq(rest, LAMBDA r : r.date > x.date)

\* Variant of the projection that compares the month only.
filteredReminders_IgnoreYear(rems, selectedDate) ==
    SortByDate(SelectSeq(rems, LAMBDA r : getMonth(r.date) = getMonth(selectedDate)))

\* The list the reminders view shows for the month of selectedDate; filter
\* returns a new array, which is the one sort reorders.
filteredReminders(rems, selectedDate) ==
    SortByDate(SelectSeq(rems, LAMBDA r :
        /\ getMonth(r.date) = getMonth(selectedDate)
        /\ getFullYear(r.date) = getFullYear(selectedDate)))

\* The reminders view renders with the calendar at selectedDate.
Render(selectedDate) ==
    /\ phase = "running"
    /\ view = "reminders"
    /\ last' = [Did("render", selectedDate) EXCEPT
                  !.out = filteredReminders(reminders, selectedDate)]
    /\ UNCHANGED <<phase, view, history, reminders, user, isAnalyzing, localBusy,
                   store, permission, now, inflight, nextId, nextItem,
                   dispatched, run, appended, snap>>
    /\ UNCHANGED <<timers, cleared>>
    /\ UNCHANGED chatVars

\* ---------------------------------------------------------- history ledger
\* saveToHistory as created by the render in which the list was hist.
saveToHistory(item, hist) ==
    LET updatedHistory == <<item>> \o hist IN
    /\ history' = IF phase = "running" THEN updatedHistory ELSE history
    /\ store' = [store EXCEPT
                   !.history = Text(StringifySeq(updatedHistory, HistoryItemFields))]
    /\ appended' = Append(appended, item)

\* What analyzePlantImage resolves with: the record of a diagnosis, which
\* has none of the payloads of the other variants.
resultRaw == [guideContent |-> Undef, soilData |-> Undef, seedData |-> Undef]

\* Variant of the items in which the seed view stores its data as soilData.
NewItem_SeedAsSoil(kind, id) ==
    [id |-> id, type |-> kind,
     guideContent |-> IF kind = "guide" THEN "reply" ELSE Undef,
     soilData |-> IF kind \in {"soil-analysis", "seed-analysis"} THEN "data" ELSE Undef,
     seedData |-> Undef]

\* The item each producer builds from a successful reply: the home view
\* spreads resultRaw, the others set the one payload of their variant.
NewItem(kind, id) ==
    [id |-> id, type |-> kind,
     guideContent |-> IF kind = "guide" THEN "reply"
                      ELSE IF kind = "analysis" THEN resultRaw.guideContent ELSE Undef,
     soilData |-> IF kind = "soil-analysis" THEN "data"
                  ELSE IF kind = "analysis" THEN resultRaw.soilData ELSE Undef,
     seedData |-> IF kind = "seed-analysis" THEN "data"
                  ELSE IF kind = "analysis" THEN resultRaw.seedData ELSE Undef]

\* The view whose handler issues a request of each kind.
ViewOf(kind) ==
    CASE kind = "analysis" -> "home"
      [] kind = "guide" -> "garden-care"
      [] kind = "soil-analysis" -> "soil-analyzer"
      [] kind = "seed-analysis" -> "seed-detector"

\* The messages a request of each kind adds to a chat before it is done:
\* the plant name typed in the garden chat and the reply, or one notice.
Need(kind) ==
    CASE kind = "analysis" -> 1
      [] kind = "guide" -> 2
      [] kind = "soil-analysis" -> 1
      [] kind = "seed-analysis" -> 0

\* A request whose continuation will still add a message.
Owes(req) ==
    \/ req.kind = "analysis"
    \/ req.kind \in {"guide", "soil-analysis"} /\ req.live

Owed(reqs) == Cardinality({j \in 1..Len(reqs) : Owes(reqs[j])})

\* handleImageAnalysis, handleChatSubmit and the two performAnalysis up to
\* their await: the request keeps the saveToHistory of the current render.
StartRequest(kind) ==
    /\ phase = "running"
    /\ view = ViewOf(kind)
    /\ IF kind = "analysis" THEN ~isAnalyzing ELSE ~localBusy
    /\ Len(inflight) < MaxInflight
    /\ nextItem + Len(inflight) <= MaxItems
    /\ nextMsg + Owed(inflight) + Need(kind) - 1 <= MaxMsgs
    /\ inflight' = Append(inflight, [kind |-> kind, hist |-> history, live |-> TRUE])
    /\ isAnalyzing' = IF kind = "analysis" THEN TRUE ELSE isAnalyzing
    /\ localBusy' = IF kind = "analysis" THEN localBusy ELSE TRUE
    /\ chatMessages' =
          CASE kind = "guide" -> Append(chatMessages, Message(nextMsg, "user", FALSE))
            [] kind = "soil-analysis" -> <<>>
            [] OTHER -> chatMessages
    /\ nextMsg' = IF kind = "guide" THEN nextMsg + 1 ELSE nextMsg
    /\ error' = IF kind \in {"soil-analysis", "seed-analysis"} THEN FALSE ELSE error
    /\ last' = Did("start", 0)
    /\ UNCHANGED <<phase, view, history, reminders, user, store, permission, now,
                   nextId, nextItem, dispatched, run, appended, snap, messages,
                   translatingIndex, translating, succeeded, timers, cleared>>

Without(s, i) == [j \in 1..(Len(s) - 1) |-> IF j < i THEN s[j] ELSE s[j + 1]]

\* The messages the continuation of a request adds.  The home analysis
\* appends to App.messages, whose change makes a mounted GardenCare take
\* them over as its chat; the views append to their own chat while mounted.
Reported(req, outcome) ==
    LET notice == Message(nextMsg, "model", req.kind = "analysis" /\ outcome = "ok") IN
    IF phase # "running" THEN UNCHANGED <<messages, chatMessages, nextMsg>>
    ELSE CASE req.kind = "analysis" ->
                /\ messages' = Append(messages, notice)
                /\ chatMessages' = IF view = "garden-care" THEN messages'
                                   ELSE chatMessages
                /\ nextMsg' = nextMsg + 1
           [] req.kind = "guide" /\ req.live ->
                /\ chatMessages' = Append(chatMessages, notice)
                /\ nextMsg' = nextMsg + 1
                /\ UNCHANGED messages
           [] req.kind = "soil-analysis" /\ req.live /\ outcome = "ok" ->
                /\ chatMessages' = <<notice>>
                /\ nextMsg' = nextMsg + 1
                /\ UNCHANGED messages
           [] OTHER -> UNCHANGED <<messages, chatMessages, nextMsg>>

\* Variant of the test that lets an empty reply through.
Saves_AnyReply(req, outcome) == outcome # "throw"

\* The continuation reaches saveToHistory: not after a rejection, and not
\* with a falsy reply (if (onAddToHistory && reply), if (!data) throw, and
\* the read of resultRaw.plantName, which throws on null).
Saves(req, outcome) == outcome = "ok"

\* setError(...) in the catch block of the two performAnalysis, which an
\* empty result reaches through throw new Error(...).
Failed(req, outcome) ==
    IF /\ phase = "running" /\ req.live /\ outcome # "ok"
       /\ req.kind \in {"soil-analysis", "seed-analysis"}
    THEN TRUE
    ELSE error

\* The awaited call settles: "ok" with a reply, "empty" with a falsy reply,
\* "throw" with a rejection.
CompleteRequest(i, outcome) ==
    /\ phase # "init"
    /\ i \in 1..Len(inflight)
    /\ LET req == inflight[i] IN
        /\ IF Saves(req, outcome)
           THEN /\ saveToHistory(NewItem(req.kind, nextItem), req.hist)
                /\ nextItem' = nextItem + 1
           ELSE UNCHANGED <<history, store, appended, nextItem>>
        /\ Reported(req, outcome)
        /\ error' = Failed(req, outcome)
        /\ isAnalyzing' = IF req.kind = "analysis" THEN FALSE ELSE isAnalyzing
        /\ localBusy' = IF req.kind # "analysis" /\ req.live THEN FALSE ELSE localBusy
        /\ last' = [Did(IF outcome = "ok" THEN "append" ELSE "failed", 0)
                       EXCEPT !.out = <<req.kind, req.live>>]
    /\ inflight' = Without(inflight, i)
    /\ UNCHANGED <<phase, view, reminders, user, permission, now, nextId,
                   dispatched, run, snap, translatingIndex, translating,
                   succeeded, timers, cleared>>

\* The ids of the items in the ledger, in memory or in the store.
Removable ==
    {history[i].id : i \in 1..Len(history)}
       \cup {LoadSeq(store.history, HistoryItemFields)[i].id :
                 i \in 1..Len(LoadSeq(store.history, HistoryItemFields))}

\* Variant of Clear All that forgets the stored copy.
ClearAll_MemoryOnly ==
    /\ phase = "running"
    /\ view = "history"
    /\ history' = <<>>
    /\ appended' = <<>>
    /\ last' = Did("clear", Len(history))
    /\ UNCHANGED <<phase, view, reminders, user, isAnalyzing, localBusy, store,
                   permission, now, inflight, nextId, nextItem, dispatched, run,
                   snap>>
    /\ cleared' = cleared \cup Removable
    /\ UNCHANGED timers
    /\ UNCHANGED chatVars

\* Clear All in the history view, confirmed.
ClearAll ==
    /\ phase = "running"
    /\ view = "history"
    /\ history' = <<>>
    /\ store' = [store EXCEPT !.history = Absent]
    /\ appended' = <<>>
    /\ last' = Did("clear", Len(history))
    /\ UNCHANGED <<phase, view, reminders, user, isAnalyzing, localBusy,
                   permission, now, inflight, nextId, nextItem, dispatched, run,
                   snap>>
    /\ cleared' = cleared \cup Removable
    /\ UNCHANGED timers
    /\ UNCHANGED chatVars

\* ------------------------------------------------------- views and account
\* The view component is replaced: its local state is gone and requests it
\* issued no longer belong to a mounted component.
Orphaned(reqs) ==
    [j \in 1..Len(reqs) |->
        IF reqs[j].kind = "analysis" THEN reqs[j] ELSE [reqs[j] EXCEPT !.live = FALSE]]

\* The chat a view component starts with: GardenCare takes App.messages
\* when there are any and greets otherwise; the others start empty.
InitialChat(newView) ==
    IF newView = "garden-care"
    THEN IF messages # <<>> THEN messages ELSE <<greeting>>
    ELSE <<>>

\* The translation requests after the view component is replaced.  Those
\* of ChatWindow still write App.messages through handleUpdateMessage; those
\* of GardenCare and SoilAnalyzer only set the state of the component that
\* is gone, which React ignores, so they are dropped here.
Unmounted(reqs) ==
    LET app == SelectSeq(reqs, LAMBDA req : req.view = "home") IN
    [j \in 1..Len(app) |-> [app[j] EXCEPT !.live = FALSE]]

handleViewChange(newView) ==
    /\ phase = "running"
    /\ newView # view
    /\ view' = newView
    /\ localBusy' = FALSE
    /\ inflight' = Orphaned(inflight)
    /\ chatMessages' = InitialChat(newView)
    /\ translatingIndex' = NoIndex
    /\ translating' = Unmounted(translating)
    /\ succeeded' = {e \in succeeded : e[1] = "app"}
    /\ error' = FALSE
    /\ last' = Did("view", 0)
    /\ UNCHANGED <<phase, history, reminders, user, isAnalyzing, store,
                   permission, now, nextId, nextItem, dispatched, run, appended,
                   snap, messages, nextMsg, timers, cleared>>

\* ------------------------------------------------------------ translations
\* The list whose messages the mounted view shows with translate buttons.
ShownMessages == IF view = "home" THEN messages ELSE chatMessages

\* Whose state a list is: App's or the view component's.
Owner(v) == IF v = "home" THEN "app" ELSE "local"

\* The button that calls handleTranslate(index, lang) is there and enabled:
\* ChatWindow offers the menu on model messages without a diagnosis,
\* GardenCare and SoilAnalyzer disable the buttons of translatingIndex.
CanTranslate(index) ==
    /\ index \in 1..Len(ShownMessages)
    /\ ShownMessages[index].role = "model"
    /\ IF view = "home"
       THEN ~ShownMessages[index].analysis /\ ~isAnalyzing
       ELSE translatingIndex # index

\* msg.translations?.[lang]
IsCached(msg, lang) == msg[lang] # Undef

\* handleTranslate up to its await.
handleTranslate(index, lang) ==
    /\ phase = "running"
    /\ view \in {"home", "garden-care", "soil-analyzer"}
    /\ CanTranslate(index)
    /\ IF IsCached(ShownMessages[index], lang)
       THEN /\ last' = [Did("translate", index) EXCEPT !.out = <<lang, "cached">>]
            /\ UNCHANGED <<translatingIndex, translating>>
       ELSE /\ Len(translating) < MaxTranslating
            /\ translatingIndex' = index
            /\ translating' = Append(translating,
                  [view |-> view, index |-> index, lang |-> lang,
                   msgs |-> ShownMessages, live |-> TRUE])
            /\ last' = [Did("translate", index) EXCEPT !.out = <<lang, "requested">>]
    /\ UNCHANGED <<phase, view, history, reminders, user, isAnalyzing, localBusy,
                   store, permission, now, inflight, nextId, nextItem,
                   dispatched, run, appended, snap, messages, chatMessages,
                   nextMsg, succeeded, error, timers, cleared>>

\* Variant of the write that stores a translation whatever came back.
Translated_AnyResult(req, outcome) ==
    [req.msgs EXCEPT ![req.index][req.lang] = "translation"]

\* The list the continuation writes: the one of the render that issued the
\* request, with the translation set on a non-empty result.
Translated(req, outcome) ==
    IF outcome = "ok"
    THEN [req.msgs EXCEPT ![req.index][req.lang] = "translation"]
    ELSE req.msgs

\* Variant of the release that keeps the token after a failure.
Released_OnSuccess(req, outcome) ==
    IF req.live /\ outcome = "ok" THEN NoIndex ELSE translatingIndex

\* finally { setTranslatingIndex(null) } in the component that issued the
\* request, if it is still mounted.
Released(req, outcome) == IF req.live THEN NoIndex ELSE translatingIndex

\* translateText settles: "ok" with a text, "empty" with a falsy result,
\* "throw" with a rejection.
CompleteTranslate(i, outcome) ==
    /\ phase # "init"
    /\ i \in 1..Len(translating)
    /\ LET req == translating[i]
           written == phase = "running" /\ Translated(req, outcome) # req.msgs
                         /\ (req.view = "home" \/ req.live) IN
        /\ messages' = IF written /\ req.view = "home"
                       THEN Translated(req, outcome) ELSE messages
        /\ chatMessages' =
              IF written /\ (req.view # "home" \/ view = "garden-care")
              THEN Translated(req, outcome) ELSE chatMessages
        /\ succeeded' =
              IF written
              THEN succeeded \cup {<<Owner(req.view), req.msgs[req.index].mid, req.lang>>}
              ELSE succeeded
        /\ translatingIndex' = Released(req, outcome)
        /\ last' = [Did(IF outcome = "ok" THEN "translated" ELSE "untranslated",
                        req.index) EXCEPT !.out = <<req.lang, req.live>>]
    /\ translating' = Without(translating, i)
    /\ UNCHANGED <<phase, view, history, reminders, user, isAnalyzing, localBusy,
                   store, permission, now, inflight, nextId, nextItem,
                   dispatched, run, appended, snap, nextMsg, error, timers,
                   cleared>>

handleGoogleLogin ==
    /\ phase = "running"
    /\ view = "account"
    /\ ~user.isLoggedIn
    /\ user' = mockUser
    /\ store' = [store EXCEPT !.user = Text(StringifyObj(mockUser, UserFields))]
    /\ last' = Did("login", 0)
    /\ UNCHANGED <<phase, view, history, reminders, isAnalyzing, localBusy,
                   permission, now, inflight, nextId, nextItem, dispatched, run,
                   appended, snap>>
    /\ UNCHANGED <<timers, cleared>>
    /\ UNCHANGED chatVars

\* Variant of the sign-out that leaves the stored record.
handleSignOut_KeepsRecord ==
    /\ phase = "running"
    /\ view = "account"
    /\ user.isLoggedIn
    /\ user' = loggedOutUser
    /\ view' = "home"
    /\ last' = Did("signout", 0)
    /\ UNCHANGED <<phase, history, reminders, isAnalyzing, localBusy, permission,
                   now, inflight, nextId, nextItem, appended, snap, store>>
    /\ UNCHANGED <<dispatched, run, timers, cleared>>
    /\ UNCHANGED chatVars

handleSignOut ==
    /\ phase = "running"
    /\ view = "account"
    /\ user.isLoggedIn
    /\ user' = loggedOutUser
    /\ store' = [store EXCEPT !.user = Absent]
    /\ view' = "home"
    /\ last' = Did("signout", 0)
    /\ UNCHANGED <<phase, history, reminders, isAnalyzing, localBusy, permission,
                   now, inflight, nextId, nextItem, dispatched, run, appended,
                   snap>>
    /\ UNCHANGED <<timers, cleared>>
    /\ UNCHANGED chatVars

\* ----------------------------------------------------------- specification
Next ==
    \/ Mount
    \/ Reload
    \/ PermissionDecision
    \/ TimePasses
    \/ \E failing \in SUBSET Ids : Tick(failing)
    \/ \E title \in Titles, date \in Dates : handleAddReminder(title, date)
    \/ \E id \in Ids : handleToggleReminder(id)
    \/ \E id \in Ids : handleDeleteReminder(id)
    \/ \E selectedDate \in Dates : Render(selectedDate)
    \/ \E first, second \in Mutations : BackToBack(first, second)
    \/ \E kind \in HistoryItemType : StartRequest(kind)
    \/ \E i \in 1..MaxInflight, outcome \in {"ok", "empty", "throw"} :
          CompleteRequest(i, outcome)
    \/ ClearAll
    \/ \E newView \in AppView : handleViewChange(newView)
    \/ handleGoogleLogin
    \/ handleSignOut
    \/ \E index \in 1..(MaxMsgs + 1), lang \in Lang : handleTranslate(index, lang)
    \/ \E i \in 1..MaxTranslating, outcome \in {"ok", "empty", "throw"} :
          CompleteTranslate(i, outcome)

Spec == Init /\ [][Next]_vars

\* The reminder registry and the scheduler on their own: the ledger stays
\* empty, the user moves between the home and the reminders view and every
\* reminder has the same title.
NextScheduler ==
    \/ Mount
    \/ Reload
    \/ PermissionDecision
    \/ TimePasses
    \/ Tick({})
    \/ \E date \in Instants : handleAddReminder("Fertilize Tomatoes", date)
    \/ \E id \in Ids : handleToggleReminder(id)
    \/ \E id \in Ids : handleDeleteReminder(id)
    \/ \E newView \in {"home", "reminders"} : handleViewChange(newView)

SpecScheduler == Init /\ [][NextScheduler]_vars

\* The history ledger on its own: the registry stays empty.
NextLedger ==
    \/ Mount
    \/ Reload
    \/ \E kind \in HistoryItemType : StartRequest(kind)
    \/ \E i \in 1..MaxInflight, outcome \in {"ok", "empty", "throw"} :
          CompleteRequest(i, outcome)
    \/ ClearAll
    \/ \E newView \in AppView : handleViewChange(newView)

SpecLedger == Init /\ [][NextLedger]_vars

\* Both collections together, for what is written through to the store:
\* every mutation of the registry and of the ledger, with the capability
\* granted, the clock standing still, one reminder date and guide
\* items only (their soilData and seedData are undefined).
InitStore == Init /\ permission = "granted"

NextStore ==
    \/ Mount
    \/ Reload
    \/ \E title \in Titles : handleAddReminder(title, 0)
    \/ \E id \in Ids : handleToggleReminder(id)
    \/ \E id \in Ids : handleDeleteReminder(id)
    \/ StartRequest("guide")
    \/ \E i \in 1..MaxInflight, outcome \in {"ok", "throw"} :
          CompleteRequest(i, outcome)
    \/ ClearAll
    \/ \E newView \in {"garden-care", "reminders", "history"} :
          handleViewChange(newView)

SpecStore == InitStore /\ [][NextStore]_vars

\* The registry as the reminders view uses it: every date of the calendar,
\* the capability denied, so that no run of the scheduler dispatches.
InitRegistry == Init /\ permission = "denied"

NextRegistry ==
    \/ Mount
    \/ Reload
    \/ \E title \in Titles, date \in Dates : handleAddReminder(title, date)
    \/ \E id \in Ids : handleToggleReminder(id)
    \/ \E id \in Ids : handleDeleteReminder(id)
    \/ \E selectedDate \in Dates : Render(selectedDate)
    \/ \E newView \in {"home", "reminders"} : handleViewChange(newView)

SpecRegistry == InitRegistry /\ [][NextRegistry]_vars

\* The account next to the collections: sign-in and sign-out, the timer, a
\* guide request and the registry, with the capability granted.
NextAccount ==
    \/ Mount
    \/ Reload
    \/ TimePasses
    \/ Tick({})
    \/ \E date \in Instants : handleAddReminder("Water Basil", date)
    \/ \E id \in Ids : handleToggleReminder(id)
    \/ StartRequest("guide")
    \/ \E i \in 1..MaxInflight : CompleteRequest(i, "ok")
    \/ \E newView \in {"garden-care", "reminders", "account"} :
          handleViewChange(newView)
    \/ handleGoogleLogin
    \/ handleSignOut

SpecAccount == InitStore /\ [][NextAccount]_vars

\* The scheduler with a Notification constructor that can throw when the
\* timer fires (as it does where notifications need a service worker), the
\* capability granted.
InitDispatch ==
    /\ Init
    /\ permission = "granted"
    /\ store.history = Absent /\ store.user = Absent

NextDispatch ==
    \/ Mount
    \/ Reload
    \/ TimePasses
    \/ \E failing \in SUBSET Ids : Tick(failing)
    \/ \E date \in Instants : handleAddReminder("Fertilize Tomatoes", date)
    \/ \E id \in Ids : handleToggleReminder(id)
    \/ \E newView \in {"home", "reminders"} : handleViewChange(newView)

SpecDispatch == InitDispatch /\ [][NextDispatch]_vars

\* The registry under events that call two of its handlers: one title, one
\* date, the capability denied.
BatchMutations == {m \in Mutations : m.title = "Water Basil" /\ m.date = 0}

NextBackToBack ==
    \/ Mount
    \/ Reload
    \/ handleAddReminder("Water Basil", 0)
    \/ \E first, second \in BatchMutations : BackToBack(first, second)
    \/ \E newView \in {"home", "reminders"} : handleViewChange(newView)

SpecBackToBack == InitRegistry /\ [][NextBackToBack]_vars

\* The scheduler over markers it did not write on that day: the day a marker
\* names is the local day of the browser at the time it was written
\* (toDateString), so localStorage can hold, for a reminder due today, the
\* marker of another day.  The markers found at the first start are an
\* input here and the capability is granted.
InitRollover ==
    /\ phase = "init"
    /\ InitialMemory
    /\ store \in [history : {Absent}, user : {Absent}, reminders : {Absent},
                  notified : [Ids -> {NoMarker} \cup Days]]
    /\ permission = "granted"
    /\ now = 0
    /\ inflight = <<>>
    /\ nextId = 1
    /\ nextItem = 1
    /\ dispatched = [id \in Ids |-> [d \in Days |-> 0]]
    /\ run = [n |-> 0, trace |-> <<>>, threw |-> FALSE]
    /\ appended = <<>>
    /\ snap = NoSnapshot
    /\ last = Did("none", 0)
    /\ translating = <<>>
    /\ nextMsg = 1
    /\ succeeded = {}
    /\ timers = <<>>
    /\ cleared = {}

NextRollover ==
    \/ Mount
    \/ Reload
    \/ TimePasses
    \/ Tick({})
    \/ \E date \in Instants : handleAddReminder("Fertilize Tomatoes", date)
    \/ \E id \in Ids : handleToggleReminder(id)
    \/ \E id \in Ids : handleDeleteReminder(id)
    \/ \E newView \in {"home", "reminders"} : handleViewChange(newView)

SpecRollover == InitRollover /\ [][NextRollover]_vars

\* The chats and their translations: a fresh store, the home and the garden
\* view, and translations asked for the first and the third message of a
\* chat (in the garden chat the second is the plant name the user typed).
InitTranslate ==
    /\ Init
    /\ permission = "denied"
    /\ store.history = Absent /\ store.user = Absent /\ store.reminders = Absent

NextTranslate ==
    \/ Mount
    \/ \E kind \in {"analysis", "guide"} : StartRequest(kind)
    \/ \E i \in 1..MaxInflight, outcome \in {"ok", "throw"} :
          CompleteRequest(i, outcome)
    \/ \E newView \in {"home", "garden-care"} : handleViewChange(newView)
    \/ \E index \in {1, 3}, lang \in Lang : handleTranslate(index, lang)
    \/ \E i \in 1..MaxTranslating, outcome \in {"ok", "empty", "throw"} :
          CompleteTranslate(i, outcome)

SpecTranslate == InitTranslate /\ [][NextTranslate]_vars

\* ================================================================ scheduler
today == toDateString(now)

\* A step in which checkReminders ran.
RunStep == run'.n # run.n

InTrace(event) == \E i \in 1..Len(run.trace) : run.trace[i] = event

\* C1: over any sequence of scheduler runs (ticks, the run at mount, runs
\* after a change of the list, runs after a reload) interleaved with add,
\* toggle and delete, at most one notification is dispatched for a reminder
\* on one calendar day.
C1_AtMostOncePerDay ==
    \A id \in Ids, d \in Days : dispatched[id][d] <= 1

\* A run found the marker of a reminder it had dispatched that day and
\* skipped it.
C1_Witness ==
    \E id \in Ids : dispatched[id][today] = 1 /\ InTrace(<<"skip", id>>)

\* C2: a run with the capability granted dispatches exactly one notification
\* for every reminder that is Pending when it runs and records the marker
\* (id, today).
C2_PendingIsDispatched ==
    [][(RunStep /\ permission = "granted") =>
         \A i \in 1..Len(reminders') :
            Pending(reminders'[i], store.notified, now) =>
               /\ dispatched'[reminders'[i].id][today]
                     = dispatched[reminders'[i].id][today] + 1
               /\ store'.notified[reminders'[i].id] = today]_vars

C2_Witness ==
    /\ permission = "granted"
    /\ \E i \in 1..Len(reminders) :
          /\ InTrace(<<"dispatch", reminders[i].id>>)
          /\ store.notified[reminders[i].id] = today
          /\ dispatched[reminders[i].id][today] = 1

\* C3: a marker (id, D) is in the store only if a notification for id was
\* dispatched on day D, and within a run every marker write directly follows
\* the dispatch call for the same reminder.
C3_MarkerOnlyAfterDispatch ==
    /\ \A id \in Ids :
          store.notified[id] # NoMarker => dispatched[id][store.notified[id]] >= 1
    /\ \A i \in 1..Len(run.trace) :
          run.trace[i][1] = "mark" =>
             i > 1 /\ run.trace[i - 1] = <<"dispatch", run.trace[i][2]>>

C3_Witness ==
    \E id \in Ids : store.notified[id] = today /\ InTrace(<<"mark", id>>)

\* C4: a run dispatches only for reminders that are, in the registry as it
\* is when the run happens, not completed and dated today; a completed or
\* deleted reminder is never dispatched, with or without a marker.
C4_OnlyDueAndOpen ==
    [][RunStep =>
         \A id \in Ids, d \in Days :
            dispatched'[id][d] > dispatched[id][d] =>
               /\ d = today
               /\ \E i \in 1..Len(reminders') :
                     /\ reminders'[i].id = id
                     /\ ~reminders'[i].completed
                     /\ toDateString(reminders'[i].date) = today]_vars

\* A tick with the capability granted passed over a completed reminder dated
\* today that has no marker.
C4_Witness ==
    /\ permission = "granted"
    /\ last.op = "tick"
    /\ \E i \in 1..Len(reminders) :
          /\ reminders[i].completed
          /\ toDateString(reminders[i].date) = today
          /\ store.notified[reminders[i].id] = NoMarker

\* C5: with the capability denied or not yet requested a run dispatches
\* nothing, writes no marker and raises no error, and a due reminder stays
\* Pending.
C5_NotGrantedSkips ==
    [][(RunStep /\ permission \in {"default", "denied"}) =>
         /\ dispatched' = dispatched
         /\ store'.notified = store.notified
         /\ ~run'.threw
         /\ phase' = "running"
         /\ \A i \in 1..Len(reminders') :
               Pending(reminders'[i], store.notified, now) =>
                  Pending(reminders'[i], store'.notified, now)]_vars

C5_Witness ==
    /\ permission \in {"default", "denied"}
    /\ last.op = "tick"
    /\ \E i \in 1..Len(reminders) : Pending(reminders[i], store.notified, now)

\* =================================================================== ledger
RECURSIVE Reverse(_)
Reverse(s) == IF s = <<>> THEN <<>> ELSE Reverse(Tail(s)) \o <<Head(s)>>

Holds(s, x) == \E i \in 1..Len(s) : s[i] = x

persistedHistory == LoadSeq(store.history, HistoryItemFields)

persistedReminders == LoadSeq(store.reminders, ReminderFields)

\* C6: the ledger in memory and in the store is the sequence of the items
\* passed to saveToHistory, most recent first.
C6_MostRecentFirst ==
    phase = "running" =>
       /\ history = Reverse(appended)
       /\ persistedHistory = Reverse(appended)

\* C7: every item passed to saveToHistory stays in the ledger, in memory and
\* in the store, until Clear All, whatever the order in which the requests
\* that append were started and finished.
C7_AppendedItemsStay ==
    phase = "running" =>
       \A i \in 1..Len(appended) :
          Holds(history, appended[i]) /\ Holds(persistedHistory, appended[i])

\* C8: right after Clear All on a ledger that held items, the ledger in
\* memory is empty and loading the stored key gives the empty sequence.
C8_ClearEmpties ==
    (last.op = "clear" /\ last.n > 0) =>
       history = <<>> /\ persistedHistory = <<>>

C8_Witness == last.op = "clear" /\ last.n > 0 /\ history = <<>>

\* C9: while the application runs, the stored value of each collection
\* parses to exactly the sequence in memory, after every append, clear, add,
\* toggle and delete; and a start after a reload brings back the history and
\* the reminders that were in memory at the reload.
C9_WriteThrough ==
    /\ phase = "running" =>
          persistedHistory = history /\ persistedReminders = reminders
    /\ (phase = "running" /\ last.op = "mount") => last.n # 2

\* A start after a reload found a ledger and a registry that both hold
\* records, the items with fields left out of the stored text.
C9_Witness ==
    /\ phase = "running"
    /\ last.op = "mount"
    /\ last.n = 1
    /\ \E i \in 1..Len(reminders) : reminders[i].completed
    /\ Len(history) > 1
    /\ \A i \in 1..Len(history) :
          history[i].soilData = Undef /\ Len(store.history.body[i]) = 3

\* C10: a start that finds a stored value JSON.parse rejects does not crash:
\* the application runs and the collection is empty.
C10_MalformedDegrades ==
    (/\ last.op = "mount"
     /\ \/ ParseThrows(store.history)
        \/ ParseThrows(store.user)
        \/ ParseThrows(store.reminders)) =>
       /\ phase = "running"
       /\ ParseThrows(store.history) => history = <<>>
       /\ ParseThrows(store.reminders) => reminders = <<>>
       /\ ParseThrows(store.user) => user = loggedOutUser

\* ================================================================= registry
HoldsId(s, id) == \E i \in 1..Len(s) : s[i].id = id

\* C11: toggleCompletion(id) for an id in the registry flips completed of
\* the reminder with that id and nothing else: its other fields, every other
\* reminder and the order stay, and the whole updated sequence is persisted.
C11_ToggleFlipsOne ==
    [][\A id \in Ids :
         (last'.op = "toggle" /\ last'.n = id /\ HoldsId(reminders, id)) =>
            /\ Len(reminders') = Len(reminders)
            /\ \A i \in 1..Len(reminders) :
                  IF reminders[i].id = id
                  THEN /\ reminders'[i].completed = ~reminders[i].completed
                       /\ \A f \in {"id", "title", "date", "type", "plantName"} :
                             reminders'[i][f] = reminders[i][f]
                  ELSE reminders'[i] = reminders[i]
            /\ store'.reminders.kind = "text"
            /\ persistedReminders' = reminders']_vars

\* A completed reminder was toggled back while another one stayed as it was.
C11_Witness ==
    /\ last.op = "toggle"
    /\ Len(reminders) = 2
    /\ \E i, j \in 1..2 :
          /\ reminders[i].id = last.n
          /\ ~reminders[i].completed
          /\ reminders[j].id # last.n
          /\ reminders[j].completed
          /\ reminders[j].title # reminders[i].title
    /\ persistedReminders = reminders

C13_AddAppends ==
    [][last'.op = "add" =>
         /\ Len(reminders') = Len(reminders) + 1
         /\ SubSeq(reminders', 1, Len(reminders)) = reminders
         /\ reminders'[Len(reminders')].id = last'.n
         /\ ~reminders'[Len(reminders')].completed
         /\ persistedReminders' = reminders']_vars

\* A reminder dated before the one already stored was added after it.
C13_Witness ==
    /\ last.op = "add"
    /\ Len(reminders) = 2
    /\ reminders[2].id = last.n
    /\ reminders[2].date < reminders[1].date
    /\ persistedReminders = reminders

\* C14: delete(id) for an id in the registry removes that reminder from the
\* sequence in memory and in the store, leaves the others in their order,
\* and a removed reminder never comes back.
C14_DeleteRemovesOne ==
    [][/\ \A id \in Ids :
             (last'.op = "delete" /\ last'.n = id /\ HoldsId(reminders, id)) =>
                /\ \E k \in 1..Len(reminders) :
                      reminders[k].id = id /\ reminders' = Without(reminders, k)
                /\ persistedReminders' = reminders'
       /\ \A id \in Ids :
             (id < nextId /\ ~HoldsId(persistedReminders, id)) =>
                ~HoldsId(persistedReminders', id) /\ ~HoldsId(reminders', id)]_vars

\* The first of two reminders was deleted and the second is what is left,
\* also after a reload.
C14_Witness ==
    /\ phase = "running"
    /\ last.op = "mount"
    /\ nextId = 3
    /\ Len(reminders) = 1
    /\ reminders[1].id = 2

SameMonth(a, b) ==
    toDateString(a) \div DaysPerMonth = toDateString(b) \div DaysPerMonth

\* C16: the list shown for a month holds exactly the reminders dated in that
\* month of that year, in ascending order of date, and computing it changes
\* neither the registry in memory nor the store.
C16_ForMonthProjects ==
    [][last'.op = "render" =>
         LET out == last'.out
             sel == last'.n IN
         /\ reminders' = reminders
         /\ store' = store
         /\ \A i \in 1..Len(out) :
               Holds(reminders, out[i]) /\ SameMonth(out[i].date, sel)
         /\ \A j \in 1..Len(reminders) :
               SameMonth(reminders[j].date, sel) =>
                  Cardinality({i \in 1..Len(out) : out[i] = reminders[j]}) = 1
         /\ \A i \in 1..(Len(out) - 1) : out[i].date <= out[i + 1].date]_vars

\* The list shown has the two reminders of the month in the order of their
\* dates, which is not the order of the registry.
C16_Witness ==
    /\ last.op = "render"
    /\ Len(last.out) = 2
    /\ Len(reminders) = 2
    /\ reminders[1].date > reminders[2].date
    /\ last.out[1] = reminders[2]

\* ============================================================= translations
\* C17: a request for a message and a language for which an earlier request
\* came back with a translation does not contact the translation service:
\* no call is issued, and the message lists and the token stay as they are.
C17_CachedIsNotRequested ==
    [][\A index \in 1..(MaxMsgs + 1), lang \in Lang :
         (/\ last'.op = "translate"
          /\ last'.n = index
          /\ last'.out[1] = lang
          /\ index <= Len(ShownMessages)
          /\ <<Owner(view), ShownMessages[index].mid, lang>> \in succeeded) =>
            /\ translating' = translating
            /\ messages' = messages
            /\ chatMessages' = chatMessages
            /\ translatingIndex' = translatingIndex]_vars

\* The translations of the messages of a list that did not come from a
\* request that succeeded.
Unearned(list, owners) ==
    {<<i, lang>> \in (1..Len(list)) \X Lang :
        /\ list[i][lang] # Undef
        /\ \A o \in owners : <<o, list[i].mid, lang>> \notin succeeded}

\* C18: a message holds a translation only if a request for that message
\* and language came back with a non-empty result; a request that failed or
\* came back empty changes no message, and a request for a translation that
\* is absent contacts the service.
C18_PresentOnlyIfSucceeded ==
    /\ [](Unearned(messages, {"app"}) = {}
            /\ Unearned(chatMessages, {"app", "local"}) = {})
    /\ [][/\ last'.op = "untranslated" =>
                messages' = messages /\ chatMessages' = chatMessages
          /\ \A index \in 1..(MaxMsgs + 1), lang \in Lang :
                (/\ last'.op = "translate"
                 /\ last'.n = index
                 /\ last'.out[1] = lang
                 /\ ~IsCached(ShownMessages[index], lang)) =>
                   /\ Len(translating') = Len(translating) + 1
                   /\ translating'[Len(translating')].index = index
                   /\ translating'[Len(translating')].lang = lang]_vars

\* A request failed and left its language absent on a message that holds
\* the translation to the other language.
C18_Witness ==
    /\ last.op = "untranslated"
    /\ last.n <= Len(ShownMessages)
    /\ ShownMessages[last.n][last.out[1]] = Undef
    /\ \E lang \in Lang :
          /\ ShownMessages[last.n][lang] # Undef
          /\ <<Owner(view), ShownMessages[last.n].mid, lang>> \in succeeded

\* C19: in one view no two requests for the same message and language are
\* outstanding at the same time.
C19_OneOutstandingPerKey ==
    \A i, j \in 1..Len(translating) :
       (/\ i # j
        /\ translating[i].live /\ translating[j].live
        /\ translating[i].view = translating[j].view
        /\ translating[i].msgs[translating[i].index].mid
              = translating[j].msgs[translating[j].index].mid) =>
          translating[i].lang # translating[j].lang

\* C20: a request that settles clears the token of the view that issued it,
\* whatever the result, and issues no further request; when no request of
\* the view is outstanding the token is null.
C20_TokenReleased ==
    /\ []((\A i \in 1..Len(translating) : ~translating[i].live) =>
             translatingIndex = NoIndex)
    /\ [][(last'.op \in {"translated", "untranslated"} /\ last'.out[2] = TRUE) =>
             /\ translatingIndex' = NoIndex
             /\ Len(translating') = Len(translating) - 1]_vars

\* A request failed while another one was outstanding, and later nothing is
\* outstanding and the token is null.
C20_Witness ==
    /\ last.op = "untranslated"
    /\ last.out[2] = TRUE
    /\ translating = <<>>
    /\ translatingIndex = NoIndex
    /\ view = "garden-care"
    /\ Len(chatMessages) = 3
\* ================================================================= failures
\* C21: when a call to the AI service fails, or a guide request comes back
\* empty, the caller (while mounted) shows one fallback message or its
\* error, and nothing is appended: the ledger in memory and in the store
\* stay as they were.
C21_FailureAppendsNothing ==
    [][last'.op = "failed" =>
         LET kind == last'.out[1]
             live == last'.out[2] IN
         /\ history' = history
         /\ store'.history = store.history
         /\ (phase = "running" /\ kind = "analysis") =>
               /\ Len(messages') = Len(messages) + 1
               /\ SubSeq(messages', 1, Len(messages)) = messages
               /\ messages'[Len(messages')].role = "model"
               /\ ~messages'[Len(messages')].analysis
         /\ (phase = "running" /\ kind = "guide" /\ live) =>
               /\ Len(chatMessages') = Len(chatMessages) + 1
               /\ SubSeq(chatMessages', 1, Len(chatMessages)) = chatMessages
               /\ chatMessages'[Len(chatMessages')].role = "model"
         /\ (phase = "running" /\ kind \in {"soil-analysis", "seed-analysis"}
                /\ live) =>
               error' /\ chatMessages' = chatMessages]_vars

\* A guide request failed in the garden view with an item in the ledger:
\* the chat ends with the fallback message and the ledger holds that item.
C21_Witness ==
    /\ phase = "running"
    /\ last.op = "failed"
    /\ last.out = <<"guide", TRUE>>
    /\ Len(history) = 1
    /\ persistedHistory = history
    /\ chatMessages # <<>>
    /\ chatMessages[Len(chatMessages)].role = "model"
\* ================================================================= rollover
\* C22: a marker recorded for a reminder on a day D does not suppress its
\* dispatch on another day: a run on a day other than D, with the capability
\* granted, on which the reminder is due and not completed dispatches it
\* although the marker for D is there.
C22_MarkerOfOtherDay ==
    [][(RunStep /\ permission = "granted") =>
         \A i \in 1..Len(reminders') :
            (/\ IsDue(reminders'[i], now)
             /\ store.notified[reminders'[i].id] \notin {NoMarker, today}) =>
               /\ dispatched'[reminders'[i].id][today]
                     = dispatched[reminders'[i].id][today] + 1
               /\ store'.notified[reminders'[i].id] = today]_vars

\* A tick found the marker of another day for a reminder, dispatched it and
\* recorded today.
C22_Witness ==
    /\ last.op = "tick"
    /\ \E i \in 1..Len(reminders) :
          /\ last.out[reminders[i].id] \notin {NoMarker, today}
          /\ InTrace(<<"dispatch", reminders[i].id>>)
          /\ store.notified[reminders[i].id] = today
          /\ dispatched[reminders[i].id][today] = 1
C24_WriteKeepsLatest ==
    [][(last'.op = "translated" /\ phase = "running") =>
         LET i == last'.n
             k == last'.out[1]
             home == view = "home" \/ ~last'.out[2] IN
         /\ (home /\ i <= Len(messages)) =>
               messages' = [messages EXCEPT ![i][k] = "translation"]
         /\ (~home /\ i <= Len(chatMessages)) =>
               chatMessages' = [chatMessages EXCEPT ![i][k] = "translation"]]_vars
\* ==================================================================== clear
\* C25: an item that was in the ledger when it was cleared never shows up
\* again in the ledger in memory or in the store, also when a request that
\* was started before the clear appends after it.
C25_ClearedItemsStayGone ==
    /\ \A i \in 1..Len(history) : history[i].id \notin cleared
    /\ \A i \in 1..Len(persistedHistory) : persistedHistory[i].id \notin cleared
\* ==================================================================== timer
\* C26: at most one interval is registered at any moment; setting it up runs
\* the scheduler once at once; every change of the reminder list and the
\* teardown of the application clear the interval registered before, and
\* the callback of a cleared interval does not run again: the interval
\* there is belongs to the running application and iterates its current
\* list.
C26_OneTimerCleared ==
    /\ [](/\ Len(timers) <= 1
          /\ phase = "running" => timers = <<reminders>>
          /\ phase # "running" => timers = <<>>)
    /\ [][/\ (last'.op \in {"mount", "add", "toggle", "delete"}
               /\ timers' # <<>>) => RunStep
          /\ last'.op = "tick" => phase = "running"]_vars
\* =========================================================== read-only runs
\* C27: a run of the scheduler only reads the registry.  A tick leaves the
\* reminders in memory and in the store, the ledger and the user as they
\* are, and the only keys a run writes are the markers of the reminders it
\* dispatched in that run.
C27_RunOnlyWritesMarkers ==
    [][/\ last'.op = "tick" =>
             /\ reminders' = reminders
             /\ history' = history
             /\ user' = user
             /\ store'.reminders = store.reminders
             /\ store'.history = store.history
             /\ store'.user = store.user
       /\ RunStep =>
             \A id \in Ids :
                store'.notified[id] # store.notified[id] =>
                   /\ Calls(run'.trace, id) = 1
                   /\ store'.notified[id] = today]_vars

\* A tick dispatched one reminder and wrote its marker, next to a completed
\* reminder of the same day that has none, with an item in the ledger and
\* the user signed in.
C27_Witness ==
    /\ last.op = "tick"
    /\ \E i, j \in 1..Len(reminders) :
          /\ InTrace(<<"mark", reminders[i].id>>)
          /\ last.out[reminders[i].id] = NoMarker
          /\ store.notified[reminders[i].id] = today
          /\ reminders[j].completed
          /\ toDateString(reminders[j].date) = today
          /\ store.notified[reminders[j].id] = NoMarker
    /\ persistedReminders = reminders
    /\ history # <<>>
    /\ persistedHistory = history
    /\ user.isLoggedIn
    /\ store.user.kind = "text"
\* ========================================================= failed dispatch
\* C28: a dispatch that fails for one reminder does not stop the run: no
\* marker is written for that reminder, so that the next run tries again,
\* and every other Pending reminder of the list is dispatched and marked in
\* the same run.
C28_FailureDoesNotStopRun ==
    [][(last'.op = "tick" /\ run'.threw /\ permission = "granted") =>
         \A i \in 1..Len(reminders) :
            Pending(reminders[i], store.notified, now) =>
               IF \E j \in 1..Len(run'.trace) :
                     run'.trace[j] = <<"attempt", reminders[i].id>>
               THEN /\ store'.notified[reminders[i].id]
                          = store.notified[reminders[i].id]
                    /\ Pending(reminders[i], store'.notified, now)
               ELSE /\ dispatched'[reminders[i].id][today]
                          = dispatched[reminders[i].id][today] + 1
                    /\ store'.notified[reminders[i].id] = today]_vars
\* ================================================================= variants
\* The payload of an item is the one its type selects.
ExactPayload(item) ==
    /\ item.guideContent # Undef <=> item.type = "guide"
    /\ item.soilData # Undef <=> item.type = "soil-analysis"
    /\ item.seedData # Undef <=> item.type = "seed-analysis"

C30_RecordIffSignedIn ==
    /\ [](phase = "running" => (store.user # Absent <=> user.isLoggedIn))
    /\ [][/\ last'.op = "login" =>
                 /\ user' = mockUser
                 /\ LoadUser(store'.user) = mockUser
          /\ last'.op = "signout" =>
                 /\ user' = loggedOutUser
                 /\ store'.user = Absent
                 /\ view' = "home"
          /\ (last'.op = "mount" /\ store.user = Absent) =>
                 user' = loggedOutUser]_vars

\* The user signed out: the record is gone, the home view shows and the
\* reminders stay in memory and in the store.
C30_Witness ==
    /\ last.op = "signout"
    /\ view = "home"
    /\ user = loggedOutUser
    /\ store.user = Absent
    /\ reminders # <<>>
    /\ store.reminders.kind = "text"
====
